---- MODULE Spec2Model ----
(***************************************************************************)
(* Gouef/router: a route registry and request dispatcher layered on a gin  *)
(* engine (src/router.go).  The Router's fields, the part of the gin       *)
(* engine it drives (route trees, group handlers, the NoRoute chain, the   *)
(* response writer) and the RouteList tree handed to AddRouteList are the  *)
(* state; every exported method of Router is one action.                   *)
(*                                                                         *)
(* A path or pattern is the sequence of its segments: "/v1/p/:id" is       *)
(* <<"v1", "p", ":id">> and both "" and "/" are <<>>.                      *)
(***************************************************************************)
EXTENDS Integers, Sequences, FiniteSets, TLC

VARIABLES
    routes,          \* Router.routes: name -> Route
    errorHandlers,   \* Router.errorHandlers: status -> handler
    defaultHandler,  \* Router.defaultHandler
    trees,           \* gin engine: the registered (method, path, chain) entries
    noRoute,         \* gin engine: the handler installed by NoRoute
    engineHandlers,  \* gin engine: number of ErrorHandlerMiddleware in engine.Handlers
    phase,           \* "setup", "serving" (Run is blocked in the listener), "aborted" (panic)
    l,               \* the RouteList tree the caller has built
    addLog,          \* history: the arguments of every AddRoute call made so far
    last             \* the outcome of the most recent operation, as its caller observes it

vars == <<routes, errorHandlers, defaultHandler, trees, noRoute, engineHandlers,
          phase, l, addLog, last>>

----------------------------------------------------------------------------
(* Bounds of the model. *)

\* Cap on the number of entries registered with the engine.
MaxRoutes == 2
\* Cap on the length of the methods slice given to AddMultiMethodsRoute.
MaxMethods == 2
\* Cap on the number of times Run is called (it can be called again after a listener failure).
MaxRuns == 2
\* RouteList trees: nesting depth, children per list, routes per list.
MaxDepth == 3
MaxChildren == 1
MaxListRoutes == 1

----------------------------------------------------------------------------
(* Program constants. *)

StatusOK == 200
StatusBadRequest == 400
StatusNotFound == 404
StatusInternalServerError == 500
\* The status from which ErrorHandlerMiddleware intercepts.
ErrorThreshold == 400

DebugMode == "debug"
ReleaseMode == "release"
TestMode == "test"
GinModes == {DebugMode, ReleaseMode, TestMode}

----------------------------------------------------------------------------
(* Input domains. *)

Names == {"n1", "n2"}
Get == "GET"
Post == "POST"
Methods == {Get, Post}

\* Route patterns and RouteList prefixes.
Patterns == {<<"a">>, <<"p", ":id">>}
Prefixes == {<<>>, <<"v1">>, <<"v2">>}

\* Placeholder segments and the parameter each names.
ParamName == (":id" :> "id")
IsParam(seg) == seg \in DOMAIN ParamName

\* Handlers a caller may register.  shape "A" is func(c), "B" is func(c, *struct{ID int
\* `uri:"id" binding:"required"`}), "Bad" is func(c, int).  A handler that runs
\* answers c.JSON(status, ...).
Handlers ==
    { [id |-> "ok",   shape |-> "A",   status |-> StatusOK],
      [id |-> "fail", shape |-> "A",   status |-> StatusInternalServerError],
      [id |-> "prm",  shape |-> "B",   status |-> StatusOK],
      [id |-> "bad",  shape |-> "Bad", status |-> StatusOK] }

\* Error handlers a caller may install; each answers c.JSON(c.Writer.Status(), ...),
\* as the constructor's default handler "d0" does.
ErrorHandlerIds == {"e1", "e2"}
DefaultHandlerIds == {"d1"}
ErrorStatuses == {StatusNotFound, StatusInternalServerError}

\* Request paths: a static route, a parameter that converts, one that does not,
\* a prefixed route and a path no pattern of the model matches.
ReqPaths == {<<"a">>, <<"p", "42">>, <<"p", "abc">>, <<"zz">>}

\* strconv of the path values the uri binding converts to int.
IntOf == ("42" :> 42)

\* fmt's string form of a parameter value.
StringOf == (42 :> "42")

\* The route name used while serving, where dispatch is by method and path alone.
ServeNames == {"n1"}

\* Parameter maps given to the URL generator.
UrlParams == { [n \in {} |-> 0], ("id" :> 42) }
\* What the generator does with a placeholder that has no parameter.
MissingPolicies == {"error", "keep"}

----------------------------------------------------------------------------
(* The gin engine, as far as the Router drives it. *)

\* joinPaths: the absolute path of a relative path under a base path.
joinPaths(absolutePath, relativePath) == absolutePath \o relativePath

\* The tree lookup of one method: does the registered path match the request path.
Match(pattern, path) ==
    /\ Len(pattern) = Len(path)
    /\ \A i \in 1..Len(pattern) : IsParam(pattern[i]) \/ pattern[i] = path[i]

\* c.Params of a match: placeholder name -> the request's segment.
PathParams(pattern, path) ==
    LET idx == {i \in 1..Len(pattern) : IsParam(pattern[i])}
    IN  [n \in {ParamName[pattern[i]] : i \in idx} |->
            path[CHOOSE i \in idx : ParamName[pattern[i]] = n]]

\* A fresh gin.Context: status 200, nothing written.
NewContext(params) ==
    [status |-> StatusOK, written |-> FALSE, body |-> <<>>, events |-> <<>>,
     params |-> params, panicked |-> FALSE, matched |-> FALSE]

\* c.JSON(code, ...): the status is set unless the header is already written,
\* then the body is written.
JSON(c, code, who) ==
    [c EXCEPT !.status = IF c.written THEN @ ELSE code,
              !.written = TRUE,
              !.body = Append(@, who)]

\* c.ShouldBindUri into struct{ID int `uri:"id" binding:"required"`}.
ShouldBindUri(params) ==
    IF "id" \notin DOMAIN params THEN [ok |-> FALSE, err |-> "required", ID |-> 0]
    ELSE IF params["id"] \notin DOMAIN IntOf
         THEN [ok |-> FALSE, err |-> "conversion", ID |-> 0]
         ELSE [ok |-> TRUE, err |-> "none", ID |-> IntOf[params["id"]]]

\* An event of a request: which callable ran.  arg is the decoded ID a Shape B
\* handler received, 0 elsewhere.
Event(kind, id, arg) == [kind |-> kind, id |-> id, arg |-> arg]
Log(c, ev) == [c EXCEPT !.events = Append(@, ev)]

----------------------------------------------------------------------------
(* Router: handlers. *)

\* reflect.ValueOf(handler).Call(...): the registered handler runs and answers.
CallHandler(c, handler, arg) ==
    JSON(Log(c, Event("handler", handler.id, arg)), handler.status, handler.id)

\* An ErrorHandlerFunc runs on the context.
CallErrorHandler(c, h, via) ==
    JSON(Log(c, Event(via, h, 0)), c.status, h)

\* createHandlerFunc without the return that follows the 400 answer.
createHandlerFuncNoReturn(handler, c) ==
    IF handler.shape = "A"
    THEN CallHandler(c, handler, 0)
    ELSE IF handler.shape # "B"
    THEN [c EXCEPT !.panicked = TRUE]
    ELSE LET d  == ShouldBindUri(c.params)
             c1 == Log(c, Event("decode", d.err, d.ID))
         IN  IF ~d.ok
             THEN CallHandler(JSON(c1, StatusBadRequest, "binderr"), handler, d.ID)
             ELSE CallHandler(c1, handler, d.ID)

\* The closure createHandlerFunc returns, applied to a request context.
createHandlerFunc(handler, c) ==
    IF handler.shape = "A"
    THEN CallHandler(c, handler, 0)
    ELSE IF handler.shape # "B"
    THEN [c EXCEPT !.panicked = TRUE]
    ELSE LET d  == ShouldBindUri(c.params)
             c1 == Log(c, Event("decode", d.err, d.ID))
         IN  IF ~d.ok
             THEN JSON(c1, StatusBadRequest, "binderr")
             ELSE CallHandler(c1, handler, d.ID)

\* The part of ErrorHandlerMiddleware that follows c.Next().
ErrorHandlerMiddleware(c) ==
    IF c.panicked THEN c
    ELSE IF c.status >= ErrorThreshold
    THEN IF c.status \in DOMAIN errorHandlers
         THEN CallErrorHandler(c, errorHandlers[c.status], "middleware")
         ELSE CallErrorHandler(c, defaultHandler, "middleware")
    ELSE c

\* n copies of the middleware around an inner result.
RECURSIVE Unwind(_, _)
Unwind(n, c) == IF n = 0 THEN c ELSE Unwind(n - 1, ErrorHandlerMiddleware(c))

\* The closure installed with NoRoute.
NoRouteHandler(c) ==
    IF noRoute = "none" THEN c
    ELSE IF noRoute = "run404"
    THEN JSON(Log(c, Event("fallback", "run404", 0)), StatusNotFound, "run404")
    ELSE CallErrorHandler(c, noRoute, "noroute")

\* gin's serveError tail: the built-in 404 body when nothing was written.
Default404(c) ==
    IF c.written \/ c.panicked THEN c ELSE JSON(c, StatusNotFound, "gin404")

\* engine.ServeHTTP: the response to one request.
ServeHTTP(method, path) ==
    LET hits == {t \in trees : t.method = method /\ Match(t.path, path)}
    IN  IF hits # {}
        THEN LET t == CHOOSE t \in hits : TRUE
                 c == [NewContext(PathParams(t.path, path)) EXCEPT !.matched = TRUE]
             IN  Unwind(t.mw, createHandlerFunc(t.handler, c))
        ELSE LET c == [NewContext([n \in {} |-> ""]) EXCEPT !.status = StatusNotFound]
             IN  Default404(Unwind(engineHandlers, NoRouteHandler(c)))

----------------------------------------------------------------------------
(* Route and RouteList. *)

\* NewRoute(name, pattern, handler, method, children).
NewRoute(name, pattern, handler, method) ==
    [name |-> name, pattern |-> pattern, method |-> method, handler |-> handler]

\* NewRouteList() / CreateRouteList(pattern) with Add and addChild applied.
RouteList(pattern, rs, children) ==
    [pattern |-> pattern, routes |-> rs, children |-> children]

\* The sequences over S of length at most n.
SeqsUpTo(S, n) == UNION {[1..k -> S] : k \in 0..n}

\* The routes a caller puts in a RouteList: distinct names, one per pattern.
ListRoutes ==
    { NewRoute("n1", <<"a">>, CHOOSE h \in Handlers : h.id = "ok", Get),
      NewRoute("n2", <<"p", ":id">>, CHOOSE h \in Handlers : h.id = "prm", Get) }

\* The RouteList trees of depth at most d.
RECURSIVE RouteLists(_)
RouteLists(d) ==
    IF d = 0 THEN {}
    ELSE { RouteList(p, rs, cs) :
             p \in Prefixes,
             rs \in SeqsUpTo(ListRoutes, MaxListRoutes),
             cs \in SeqsUpTo(RouteLists(d - 1), MaxChildren) }

----------------------------------------------------------------------------
(* Router: registration.  A registration call is computed on a record of   *)
(* the fields it writes, so that a call made from inside another call      *)
(* (AddRouteList, AddMultiMethodsRoute) threads its effects; a panic       *)
(* leaves the fields as they were when it was raised.                      *)

Cur == [routes |-> routes, trees |-> trees, addLog |-> addLog,
        panicked |-> FALSE, handled |-> <<>>]

\* m[k] = v on a Go map.
Put(m, k, v) == [x \in DOMAIN m \cup {k} |-> IF x = k THEN v ELSE m[x]]

\* group.Handle(method, relativePath, handlers) on a group of base path basePath:
\* gin panics when the method already has handlers for the absolute path.
Handle(st, basePath, method, relativePath, handler, name) ==
    LET path == joinPaths(basePath, relativePath)
    IN  IF \E t \in st.trees : t.method = method /\ t.path = path
        THEN [st EXCEPT !.panicked = TRUE]
        ELSE [st EXCEPT
                !.trees = @ \cup {[method |-> method, path |-> path,
                                   handler |-> handler, mw |-> engineHandlers]},
                !.handled = Append(@, [name |-> name, method |-> method, path |-> path])]

\* AddRoute keeping the registry entry a name already has.
AddRouteOnFirstWins(st, name, pattern, handler, method) ==
    IF st.panicked THEN st
    ELSE LET route == NewRoute(name, pattern, handler, method)
             s1 == [st EXCEPT !.routes = IF name \in DOMAIN @ THEN @ ELSE Put(@, name, route),
                              !.addLog = Append(@, route)]
         IN  Handle(s1, <<>>, method, pattern, handler, name)

\* Router.AddRoute.
AddRouteOn(st, name, pattern, handler, method) ==
    IF st.panicked THEN st
    ELSE LET route == NewRoute(name, pattern, handler, method)
             s1 == [st EXCEPT !.routes = Put(@, name, route),
                              !.addLog = Append(@, route)]
         IN  Handle(s1, <<>>, method, pattern, handler, name)

\* engine.Group(relativePath): the base path of a group made from the engine.
Group(relativePath) == joinPaths(<<>>, relativePath)

\* createNativeRoute(group, route) followed by r.routes[route.name] = route.
createNativeRoute(st, group, route) ==
    IF st.panicked THEN st
    ELSE LET s1 == Handle(st, group, route.method, route.pattern, route.handler, route.name)
         IN  IF s1.panicked THEN s1
             ELSE [s1 EXCEPT !.routes = Put(@, route.name, route)]

\* The loop of AddRouteList over l.routes, from index i.
RECURSIVE AddListRoutes(_, _, _)
AddListRoutes(st, list, i) ==
    IF i > Len(list.routes) THEN st
    ELSE LET route == list.routes[i]
             s1 == IF list.pattern # <<>>
                   THEN createNativeRoute(st, Group(list.pattern), route)
                   ELSE AddRouteOn(st, route.name, route.pattern, route.handler, route.method)
         IN  AddListRoutes(s1, list, i + 1)

\* Router.AddRouteList: the routes of the list, then each child in order.
RECURSIVE AddRouteListOn(_, _)
RECURSIVE AddListChildren(_, _, _)
AddListChildren(st, children, i) ==
    IF i > Len(children) THEN st
    ELSE AddListChildren(AddRouteListOn(st, children[i]), children, i + 1)

AddRouteListOn(st, list) ==
    AddListChildren(AddListRoutes(st, list, 1), list.children, 1)

\* The loop of AddMultiMethodsRoute over methods, from index i.
RECURSIVE AddMultiOn(_, _, _, _, _, _)
AddMultiOn(st, name, pattern, handler, methods, i) ==
    IF i > Len(methods) THEN st
    ELSE AddMultiOn(AddRouteOn(st, name, pattern, handler, methods[i]),
                    name, pattern, handler, methods, i + 1)

\* Router.GenerateUrlByPattern -> GenerateUrlByPattern(pattern, params).
GenerateUrlByPattern(pattern, params, policy) ==
    LET missing == {i \in 1..Len(pattern) :
                       IsParam(pattern[i]) /\ ParamName[pattern[i]] \notin DOMAIN params}
    IN  IF missing # {} /\ policy = "error"
        THEN [url |-> <<>>, err |-> "MissingParameter"]
        ELSE [url |-> [i \in 1..Len(pattern) |->
                          IF IsParam(pattern[i]) /\ i \notin missing
                          THEN StringOf[params[ParamName[pattern[i]]]]
                          ELSE pattern[i]],
              err |-> "nil"]

\* GenerateUrlByName answering an unknown name with an empty URL and no error.
GenerateUrlByNameNoError(name, params, policy) ==
    IF name \notin DOMAIN routes
    THEN [url |-> <<>>, err |-> "nil"]
    ELSE GenerateUrlByPattern(routes[name].pattern, params, policy)

\* Router.GenerateUrlByName.
GenerateUrlByNameOf(name, params, policy) ==
    IF name \notin DOMAIN routes
    THEN [url |-> <<>>, err |-> "RouteNotFound"]
    ELSE GenerateUrlByPattern(routes[name].pattern, params, policy)

----------------------------------------------------------------------------
(* The operations. *)

\* NewRouter(), with the RouteList the caller starts from.
InitWith(list) ==
    /\ routes = [n \in {} |-> 0]
    /\ errorHandlers = [n \in {} |-> 0]
    /\ defaultHandler = "d0"
    /\ trees = {}
    /\ noRoute = "none"
    /\ engineHandlers = 0
    /\ phase = "setup"
    /\ l = list
    /\ addLog = <<>>
    /\ last = [op |-> "NewRouter"]

Init == InitWith(RouteList(<<>>, <<>>, <<>>))

InitList == \E list \in RouteLists(MaxDepth) : InitWith(list)

\* A registration call ends: its writes, and what its caller gets back.
Registered(st, op) ==
    /\ routes' = st.routes
    /\ trees' = st.trees
    /\ addLog' = st.addLog
    /\ phase' = IF st.panicked THEN "aborted" ELSE phase
    /\ last' = [op |-> op, returned |-> IF st.panicked THEN "panic" ELSE "r",
                handled |-> st.handled]
    /\ UNCHANGED <<errorHandlers, defaultHandler, noRoute, engineHandlers, l>>

AddRoute(name, pattern, handler, method) ==
    /\ phase = "setup"
    /\ Cardinality(trees) < MaxRoutes
    /\ Registered(AddRouteOn(Cur, name, pattern, handler, method), "AddRoute")

AddRouteMethod(name, pattern, handler, method) ==
    AddRoute(name, pattern, handler, method)

AddRouteGet(name, pattern, handler) == AddRouteMethod(name, pattern, handler, Get)

AddRoutePost(name, pattern, handler) == AddRouteMethod(name, pattern, handler, Post)

AddMultiMethodsRoute(name, pattern, handler, methods) ==
    /\ phase = "setup"
    /\ Cardinality(trees) + Len(methods) <= MaxRoutes
    /\ Registered(AddMultiOn(Cur, name, pattern, handler, methods, 1),
                  "AddMultiMethodsRoute")

AddRouteList ==
    /\ phase = "setup"
    /\ Registered(AddRouteListOn(Cur, l), "AddRouteList")

AddRouteObject(route) ==
    /\ phase = "setup"
    /\ Cardinality(trees) < MaxRoutes
    /\ Registered(AddRouteListOn(Cur, RouteList(<<>>, <<route>>, <<>>)), "AddRouteObject")

GenerateUrlByName(name, params, policy) ==
    /\ phase = "setup"
    /\ last' = [op |-> "GenerateUrlByName", name |-> name, params |-> params,
                policy |-> policy, result |-> GenerateUrlByNameOf(name, params, policy)]
    /\ UNCHANGED <<routes, errorHandlers, defaultHandler, trees, noRoute,
                   engineHandlers, phase, l, addLog>>

SetErrorHandler(status, handler) ==
    /\ phase = "setup"
    /\ noRoute' = IF status = StatusNotFound THEN handler ELSE noRoute
    /\ errorHandlers' = Put(errorHandlers, status, handler)
    /\ last' = [op |-> "SetErrorHandler", returned |-> "r"]
    /\ UNCHANGED <<routes, defaultHandler, trees, engineHandlers, phase, l, addLog>>

SetDefaultErrorHandler(handler) ==
    /\ phase = "setup"
    /\ defaultHandler' = handler
    /\ noRoute' = handler
    /\ last' = [op |-> "SetDefaultErrorHandler", returned |-> "r"]
    /\ UNCHANGED <<routes, errorHandlers, trees, engineHandlers, phase, l, addLog>>

\* What the caller of Run has once the listener has failed: Run returns nothing,
\* and gin prints the error only in debug mode.
ListenFailed(mode) ==
    [op |-> "Run", listenErr |-> TRUE, returnedErr |-> FALSE, logged |-> mode = DebugMode]

\* Router.Run up to router.Run(addr).
RunInstall ==
    /\ phase = "setup"
    /\ engineHandlers < MaxRuns
    /\ noRoute' = IF StatusNotFound \in DOMAIN errorHandlers
                  THEN errorHandlers[StatusNotFound]
                  ELSE "run404"
    /\ engineHandlers' = engineHandlers + 1
    /\ UNCHANGED <<routes, errorHandlers, defaultHandler, trees, l, addLog>>

\* Run, the listener starts: the call blocks.
RunServe ==
    /\ RunInstall
    /\ phase' = "serving"
    /\ last' = [op |-> "Run", listenErr |-> FALSE]

\* Run, the listener cannot start (the address is taken): the call returns.
RunFail(mode) ==
    /\ RunInstall
    /\ phase' = "setup"
    /\ last' = ListenFailed(mode)

\* The listener fails while serving: the blocked Run returns.
ListenError(mode) ==
    /\ phase = "serving"
    /\ phase' = "setup"
    /\ last' = ListenFailed(mode)
    /\ UNCHANGED <<routes, errorHandlers, defaultHandler, trees, noRoute,
                   engineHandlers, l, addLog>>

\* One request is served, by the listener or through GetNativeRouter().ServeHTTP.
\* A panic in a handler is recovered by net/http while serving and reaches the
\* caller of ServeHTTP otherwise.
Request(method, path) ==
    /\ phase \in {"setup", "serving"}
    /\ LET c == ServeHTTP(method, path)
       IN  /\ last' = [op |-> "Request", method |-> method, path |-> path, resp |-> c]
           /\ phase' = IF c.panicked /\ phase = "setup" THEN "aborted" ELSE phase
    /\ UNCHANGED <<routes, errorHandlers, defaultHandler, trees, noRoute,
                   engineHandlers, l, addLog>>

----------------------------------------------------------------------------
(* Specifications. *)

\* Registration and URL generation.
Next ==
    \/ \E n \in Names, p \in Patterns, h \in Handlers, m \in Methods : AddRoute(n, p, h, m)
    \/ \E n \in Names, p \in Patterns, h \in Handlers : AddRouteGet(n, p, h)
    \/ \E n \in Names, p \in Patterns, h \in Handlers : AddRoutePost(n, p, h)
    \/ \E n \in Names, p \in Patterns, h \in Handlers, ms \in SeqsUpTo(Methods, MaxMethods) :
          AddMultiMethodsRoute(n, p, h, ms)
    \/ \E n \in Names, p \in Patterns, h \in Handlers, m \in Methods :
          AddRouteObject(NewRoute(n, p, h, m))
    \/ \E n \in Names, ps \in UrlParams, pol \in MissingPolicies : GenerateUrlByName(n, ps, pol)

Spec == Init /\ [][Next]_vars

\* A RouteList tree is flattened into the router.
NextList ==
    \/ AddRouteList
    \/ \E r \in ListRoutes : AddRouteObject(r)
    \/ \E n \in Names, ps \in UrlParams, pol \in MissingPolicies : GenerateUrlByName(n, ps, pol)

SpecList == InitList /\ [][NextList]_vars

\* Routes and error handlers are set up, Run is called, requests are served.
NextServe ==
    \/ \E n \in ServeNames, p \in Patterns, h \in Handlers : AddRouteGet(n, p, h)
    \/ \E s \in ErrorStatuses, h \in ErrorHandlerIds : SetErrorHandler(s, h)
    \/ \E h \in DefaultHandlerIds : SetDefaultErrorHandler(h)
    \/ RunServe
    \/ \E mode \in GinModes : RunFail(mode)
    \/ \E mode \in GinModes : ListenError(mode)
    \/ \E m \in Methods, p \in ReqPaths : Request(m, p)

SpecServe == Init /\ [][NextServe]_vars

----------------------------------------------------------------------------
(* What the claims speak of. *)

\* The AddRoute call made last with name n.
LastCallFor(n) ==
    addLog[CHOOSE i \in 1..Len(addLog) :
              /\ addLog[i].name = n
              /\ \A j \in (i + 1)..Len(addLog) : addLog[j].name # n]

\* The registrations the spec's flattening asks for: every route of the tree under
\* the join of its ancestors' prefixes, root first, and its own pattern.
RECURSIVE Flattened(_, _)
Flattened(list, base) ==
    LET prefix == base \o list.pattern
    IN  {[name |-> list.routes[i].name, method |-> list.routes[i].method,
          path |-> prefix \o list.routes[i].pattern, handler |-> list.routes[i].handler] :
            i \in 1..Len(list.routes)}
        \cup UNION {Flattened(list.children[i], prefix) : i \in 1..Len(list.children)}

\* The last operation was a request, and this is its response.
Served == last.op = "Request"
Resp == last.resp

\* The registered entry the last request was dispatched to.
Dispatched ==
    CHOOSE t \in trees : t.method = last.method /\ Match(t.path, last.path)

\* The positions of a response's events of the given kinds.
EventsOf(c, kinds) == {i \in 1..Len(c.events) : c.events[i].kind \in kinds}

\* The error handler invocations of a response, however they were reached.
ErrorCalls(c) == EventsOf(c, {"noroute", "middleware"})

\* The error handler the Router holds for a status.
HandlerFor(status) ==
    IF status \in DOMAIN errorHandlers THEN errorHandlers[status] ELSE defaultHandler

----------------------------------------------------------------------------
(* The claims. *)

\* C1: after AddRouteList, every route of the tree is registered with the engine
\* under the join of all its ancestors' prefixes, root first, followed by its own
\* pattern, whatever its nesting depth.
C1_NestedPrefixesJoined ==
    (last.op = "AddRouteList" /\ last.returned = "r") =>
        \A e \in Flattened(l, <<>>) :
            \E t \in trees :
                t.method = e.method /\ t.path = e.path /\ t.handler = e.handler

\* The AddRoute family of operations.
AddRouteOps == {"AddRoute", "AddMultiMethodsRoute", "AddRouteObject"}

\* The registry holds exactly the names AddRoute was called with, each with the
\* pattern and method of the most recent call with that name.
RegistryIsLastCalls ==
    /\ DOMAIN routes = {addLog[i].name : i \in 1..Len(addLog)}
    /\ \A n \in DOMAIN routes :
          /\ routes[n].name = n
          /\ routes[n].pattern = LastCallFor(n).pattern
          /\ routes[n].method = LastCallFor(n).method

\* The engine holds the (method, pattern, handler) of the first n calls, and no more.
RegisteredCalls(n) ==
    /\ Cardinality(trees) = n
    /\ \A i \in 1..n :
          \E t \in trees : /\ t.method = addLog[i].method
                           /\ t.path = addLog[i].pattern
                           /\ t.handler = addLog[i].handler

\* Some call repeats the method and pattern of an earlier call.
RepeatedRegistration ==
    \E i, j \in 1..Len(addLog) :
        i < j /\ addLog[i].method = addLog[j].method /\ addLog[i].pattern = addLog[j].pattern

C3_DecodeBeforeHandler ==
    (Served /\ Resp.matched /\ Dispatched.handler.shape = "B") =>
        LET d == ShouldBindUri(PathParams(Dispatched.path, last.path))
            decodes == EventsOf(Resp, {"decode"})
            calls == EventsOf(Resp, {"handler"})
        IN  /\ decodes = {1}
            /\ d.ok => /\ calls = {2}
                       /\ Resp.events[2].id = Dispatched.handler.id
                       /\ Resp.events[2].arg = d.ID
            /\ ~d.ok => /\ calls = {}
                        /\ Resp.status = StatusBadRequest
                        /\ Resp.body[1] = "binderr"

\* C3's case: a Shape B handler whose required field is absent from the match.
C3_Witness ==
    /\ Served /\ Resp.matched /\ Dispatched.handler.shape = "B"
    /\ "id" \notin DOMAIN Resp.params
    /\ Resp.status = StatusBadRequest
    /\ EventsOf(Resp, {"handler"}) = {}

\* C4: for every request served after Run, a final status of 400 or more has the
\* handler registered for that status, or else the default handler, invoked after
\* the route handler; a lower status has no error handler invoked.
C4_EveryRequestIntercepted ==
    (Served /\ phase = "serving" /\ ~Resp.panicked) =>
        IF Resp.status >= ErrorThreshold
        THEN \E i \in ErrorCalls(Resp) :
                /\ Resp.events[i].id = HandlerFor(Resp.status)
                /\ \A j \in EventsOf(Resp, {"handler"}) : j < i
        ELSE ErrorCalls(Resp) = {}

\* C5: after SetErrorHandler and SetDefaultErrorHandler calls in any order, a request
\* to an unregistered path gets exactly the output of the handler registered for 404
\* when there is one (and of the default handler when there is none).  The formula
\* is the claim for the routers that hold a 404 handler.
C5_UnregisteredPathOutput ==
    (Served /\ ~Resp.matched /\ StatusNotFound \in DOMAIN errorHandlers) =>
        Resp.body = <<errorHandlers[StatusNotFound]>>

\* C6: a handler whose second parameter is not a pointer to a struct never ends up
\* registered, so no request is dispatched to it.
C6_ShapeErrorAtRegistration ==
    (Served /\ Resp.matched) => Dispatched.handler.shape \in {"A", "B"}

\* C7: when the listener fails, Run logs the failure or returns it to its caller.
C7_ListenErrorSurfaced ==
    (last.op = "Run" /\ last.listenErr) => (last.returnedErr \/ last.logged)

\* The placeholders of a pattern that have no parameter.
Unsatisfied(pattern, params) ==
    {i \in 1..Len(pattern) : IsParam(pattern[i]) /\ ParamName[pattern[i]] \notin DOMAIN params}

C8_StateOfAnswer ==
    last.op = "GenerateUrlByName" =>
        LET res == last.result
        IN  /\ last.name \notin DOMAIN routes => res = [url |-> <<>>, err |-> "RouteNotFound"]
            /\ last.name \in DOMAIN routes =>
                  LET pat == routes[last.name].pattern
                      un == Unsatisfied(pat, last.params)
                      filled == /\ res.err = "nil"
                                /\ Len(res.url) = Len(pat)
                                /\ \A i \in 1..Len(pat) :
                                      res.url[i] =
                                          IF IsParam(pat[i]) /\ i \notin un
                                          THEN StringOf[last.params[ParamName[pat[i]]]]
                                          ELSE pat[i]
                  IN  /\ res.err # "RouteNotFound"
                      /\ un = {} => filled
                      /\ un # {} => \/ res = [url |-> <<>>, err |-> "MissingParameter"]
                                    \/ filled

C9_RegistryHoldsAbsolutePattern ==
    (last.op = "AddRouteList" /\ last.returned = "r") =>
        \A i \in 1..Len(last.handled) :
            LET h == last.handled[i]
            IN  (\A j \in (i + 1)..Len(last.handled) : last.handled[j].name # h.name) =>
                    /\ routes[h.name].pattern = h.path
                    /\ Match(h.path, GenerateUrlByNameOf(h.name, ("id" :> 42), "keep").url)

\* C10: once Run has installed the fallback and the middleware, a request has at most
\* one error handler invocation.
C10_AtMostOneErrorHandler ==
    (Served /\ phase = "serving" /\ engineHandlers = 1) =>
        Cardinality(ErrorCalls(Resp)) <= 1

====
